---- MODULE Spec2Model ----
(***************************************************************************)
(* Model of keyboard-visualizer/start-server.py: the HTTP request handler  *)
(* (Handler.do_GET / do_POST / do_DELETE / do_OPTIONS / end_headers), the  *)
(* two files it persists, the port probe (find_free_port) and main().      *)
(*                                                                         *)
(* Three specifications share the variables:                               *)
(*   Spec       one action per handler, each the whole handler             *)
(*   SpecServe  the accept loop of serve_forever with clients sending      *)
(*              concurrently; a handler advances one file operation at a   *)
(*              time                                                       *)
(*   SpecBoot   main() and find_free_port() with other processes binding   *)
(*              and releasing ports at any time                            *)
(***************************************************************************)
EXTENDS Integers, Sequences, FiniteSets, TLC

VARIABLES
    fs,         \* the file system: [colors, keymap, keymap_dir]
    linesep,    \* os.linesep of the platform, as code points
    req,        \* the last request handled to completion
    resp,       \* its response
    changed,    \* history: whether that request changed the file system
    saved,      \* history: the body of the last POST /api/key-colors that
                \* answered 200, forgotten at any later POST or DELETE on it
    backlog,    \* SpecServe: connections waiting in the listen queue
    active,     \* SpecServe: handler slot -> the handler running in it
    occupied,   \* SpecBoot: ports other processes hold
    main_pc,    \* SpecBoot: where main() is
    port,       \* SpecBoot: find_free_port's loop variable
    probe,      \* SpecBoot: the port the throwaway listener holds ({} = none)
    found,      \* SpecBoot: find_free_port's return value ({} = None)
    httpd,      \* SpecBoot: the port the real listener holds ({} = none)
    banner,     \* SpecBoot: the port in the printed URL ({} = not printed)
    exit_status,\* SpecBoot: the process's exit status ({} = running)
    probe_log   \* SpecBoot history: <<port, was free>> of every probe

http_vars == <<fs, linesep, req, resp, changed, saved>>
serve_vars == <<backlog, active>>
boot_vars == <<occupied, main_pc, port, probe, found, httpd, banner,
               exit_status, probe_log>>
vars == <<http_vars, serve_vars, boot_vars>>

(***************************************************************************)
(* Bounds of the model.                                                    *)
(***************************************************************************)
MaxStrLen == 1      \* longest keymap_content string enumerated
MaxBacklog == 2     \* most connections waiting to be accepted

(***************************************************************************)
(* Strings are sequences of code points.                                   *)
(***************************************************************************)
Chars == {233, 10, 55296}   \* U+00E9, "\n", and the unpaired surrogate U+D800

Strings(n) == UNION {[1..len -> Chars] : len \in 0..n}

\* 'keymap_content'
KEYMAP_CONTENT == <<107, 101, 121, 109, 97, 112, 95, 99, 111, 110, 116, 101, 110, 116>>

IsSubstring(needle, s) ==
    \E i \in 1..(Len(s) - Len(needle) + 1) :
        SubSeq(s, i, i + Len(needle) - 1) = needle

(***************************************************************************)
(* JSON text, as the tree of its tokens (white space dropped).  An object  *)
(* is the sequence of its members as written, so a name may repeat.        *)
(* Infinity is not JSON; Python's parser reads it and its encoder writes   *)
(* it.                                                                     *)
(***************************************************************************)
Null == [k |-> "null"]
Num(m, e) == [k |-> "num", m |-> m, e |-> e]  \* e = 0: the integer m; else m E e
Infinity == [k |-> "Infinity"]
Str(s) == [k |-> "str", s |-> s]
Arr(items) == [k |-> "arr", items |-> items]
Obj(members) == [k |-> "obj", members |-> members]

(***************************************************************************)
(* Python values and json.loads / json.dumps.                              *)
(***************************************************************************)
PyNone == [t |-> "NoneType"]
PyInt(n) == [t |-> "int", n |-> n]
PyFloat(m, e) == [t |-> "float", inf |-> FALSE, m |-> m, e |-> e]
PyInf == [t |-> "float", inf |-> TRUE, m |-> 0, e |-> 0]
PyStr(s) == [t |-> "str", s |-> s]
PyList(items) == [t |-> "list", items |-> items]
PyDict(items) == [t |-> "dict", items |-> items]

\* float(): the literal m E e, m a single digit, exceeds the largest double
\* (about 1.8E308) and is read as inf.
float_overflows(m, e) == m > 0 /\ (e > 308 \/ (e = 308 /\ m >= 2))

loads_scalar(d) ==
    CASE d.k = "null" -> PyNone
      [] d.k = "num" ->
            IF d.e = 0 THEN PyInt(d.m)
            ELSE IF float_overflows(d.m, d.e) THEN PyInf
            ELSE PyFloat(d.m, d.e)
      [] d.k = "Infinity" -> PyInf
      [] d.k = "str" -> PyStr(d.s)

\* d[key] = val on a dict kept as its items in insertion order.
dict_setitem(items, key, val) ==
    IF \E i \in DOMAIN items : items[i][1] = key
    THEN [i \in DOMAIN items |->
            IF items[i][1] = key THEN <<key, val>> ELSE items[i]]
    ELSE Append(items, <<key, val>>)

RECURSIVE dict_of(_, _)
dict_of(members, n) ==
    IF n = 0 THEN <<>>
    ELSE dict_setitem(dict_of(members, n - 1), members[n][1],
                      loads_scalar(members[n][2]))

json_loads(d) ==
    CASE d.k = "arr" ->
            PyList([i \in DOMAIN d.items |-> loads_scalar(d.items[i])])
      [] d.k = "obj" -> PyDict(dict_of(d.members, Len(d.members)))
      [] OTHER -> loads_scalar(d)

dumps_scalar(v) ==
    CASE v.t = "NoneType" -> Null
      [] v.t = "int" -> Num(v.n, 0)
      [] v.t = "float" -> IF v.inf THEN Infinity ELSE Num(v.m, v.e)
      [] v.t = "str" -> Str(v.s)

json_dumps(v) ==
    CASE v.t = "list" ->
            Arr([i \in DOMAIN v.items |-> dumps_scalar(v.items[i])])
      [] v.t = "dict" ->
            Obj([i \in DOMAIN v.items |->
                    <<v.items[i][1], dumps_scalar(v.items[i][2])>>])
      [] OTHER -> dumps_scalar(v)

(***************************************************************************)
(* Text-mode files: open(path, 'w', encoding='utf-8').write(s) translates  *)
(* every "\n" to os.linesep and encodes the result as UTF-8 (strict).      *)
(***************************************************************************)
IsSurrogate(cp) == cp >= 55296 /\ cp <= 57343

utf8_encodable(s) == \A i \in DOMAIN s : ~IsSurrogate(s[i])

utf8_bytes(cp) ==
    IF cp < 128 THEN <<cp>>
    ELSE IF cp < 2048 THEN <<192 + (cp \div 64), 128 + (cp % 64)>>
    ELSE <<224 + (cp \div 4096), 128 + ((cp \div 64) % 64), 128 + (cp % 64)>>

RECURSIVE utf8_encode(_)
utf8_encode(s) ==
    IF s = <<>> THEN <<>> ELSE utf8_bytes(Head(s)) \o utf8_encode(Tail(s))

RECURSIVE translate_newlines(_, _)
translate_newlines(s, ls) ==
    IF s = <<>> THEN <<>>
    ELSE (IF Head(s) = 10 THEN ls ELSE <<Head(s)>>)
            \o translate_newlines(Tail(s), ls)

(***************************************************************************)
(* The file system.  A file is absent, holds bytes (none right after       *)
(* open(..., 'w')), or holds the text json.dump wrote.                     *)
(***************************************************************************)
Absent == [st |-> "absent"]
Bytes(b) == [st |-> "bytes", b |-> b]
JsonText(indent, d) == [st |-> "json_text", indent |-> indent, doc |-> d]

open_w(file) == Bytes(<<>>)     \* creates or truncates

\* f.write(x) on a file opened in text mode: the exception raised, or the
\* bytes that reach the file.
file_write(x, ls) ==
    IF x.t # "str" THEN [exc |-> "TypeError", b |-> <<>>]
    ELSE IF ~utf8_encodable(translate_newlines(x.s, ls))
         THEN [exc |-> "UnicodeEncodeError", b |-> <<>>]
    ELSE [exc |-> "", b |-> utf8_encode(translate_newlines(x.s, ls))]

\* json.load(f) of the colors file.
json_load(file) ==
    CASE file.st = "absent" -> [exc |-> "FileNotFoundError", val |-> PyNone]
      [] file.st = "bytes" -> [exc |-> "JSONDecodeError", val |-> PyNone]
      [] file.st = "json_text" -> [exc |-> "", val |-> json_loads(file.doc)]

(***************************************************************************)
(* Requests and responses.                                                 *)
(***************************************************************************)
KEY_COLORS_URL == "/api/key-colors"
SAVE_KEYMAP_URL == "/api/save-keymap"
KEYMAP_FILE_URL == "/config/boards/shields/detun/detun.keymap"
MISSING_URL == "/missing"
Paths == {KEY_COLORS_URL, SAVE_KEYMAP_URL, KEYMAP_FILE_URL, MISSING_URL}

NoBody == [k |-> "none"]
Malformed == [k |-> "malformed"]        \* bytes json.loads rejects
JsonBody(d) == [k |-> "json", doc |-> d]

Request(method, path, content_length, body) ==
    [method |-> method, path |-> path, content_length |-> content_length,
     body |-> body]

NoRequest == Request("", "", "absent", NoBody)
NoResponse == [status |-> 0, headers |-> {}, body |-> [k |-> "empty"]]

CORS ==
    {<<"Access-Control-Allow-Origin", "*">>,
     <<"Access-Control-Allow-Methods", "GET, POST, DELETE, OPTIONS">>,
     <<"Access-Control-Allow-Headers", "Content-Type">>}

end_headers(buffer) == buffer \cup CORS

\* send_response(code); send_header(...)*; end_headers(); wfile.write(body)
send(code, headers, body) ==
    [status |-> code, headers |-> end_headers(headers), body |-> body]

\* Mutant: the error page is sent without passing through end_headers.
send_error_no_cors(code, message, exc) ==
    [status |-> code,
     headers |-> {<<"Content-Type", "text/html;charset=utf-8">>, <<"Connection", "close">>},
     body |-> [k |-> "error_page", message |-> message, exc |-> exc]]

send_error(code, message, exc) ==
    send(code,
         {<<"Content-Type", "text/html;charset=utf-8">>, <<"Connection", "close">>},
         [k |-> "error_page", message |-> message, exc |-> exc])

send_json(code, d) ==
    send(code, {<<"Content-Type", "application/json">>}, JsonBody(d))

\* json.dumps of the success envelope, by its keys.
Envelope(message, keys) ==
    [k |-> "envelope", success |-> TRUE, message |-> message, keys |-> keys]

\* int(self.headers['Content-Length']); rfile.read(n); json.loads(...)
read_json(request) ==
    CASE request.content_length = "absent" -> [exc |-> "TypeError", val |-> PyNone]
      [] request.content_length = "nonnumeric" -> [exc |-> "ValueError", val |-> PyNone]
      [] request.body.k # "json" -> [exc |-> "JSONDecodeError", val |-> PyNone]
      [] OTHER -> [exc |-> "", val |-> json_loads(request.body.doc)]

\* key in data
contains(data, key) ==
    CASE data.t = "dict" ->
            [exc |-> "", val |-> \E i \in DOMAIN data.items : data.items[i][1] = key]
      [] data.t = "list" ->
            [exc |-> "", val |-> \E i \in DOMAIN data.items : data.items[i] = PyStr(key)]
      [] data.t = "str" -> [exc |-> "", val |-> IsSubstring(key, data.s)]
      [] OTHER -> [exc |-> "TypeError", val |-> FALSE]

\* data[key]
getitem(data, key) ==
    IF data.t = "dict" /\ \E i \in DOMAIN data.items : data.items[i][1] = key
    THEN [exc |-> "",
          val |-> data.items[CHOOSE i \in DOMAIN data.items : data.items[i][1] = key][2]]
    ELSE [exc |-> IF data.t = "dict" THEN "KeyError" ELSE "TypeError", val |-> PyNone]

(***************************************************************************)
(* The handlers.  A running handler is [req, pc, data, resp]; one step is  *)
(* the code up to and including its next file-system operation, and        *)
(* returns the handler and the file system after it.  pc = "done" once the *)
(* response is sent.                                                       *)
(***************************************************************************)
Handler(request) ==
    [req |-> request, pc |-> "start", data |-> PyNone, resp |-> NoResponse]

Done(h, f, response) ==
    [h |-> [h EXCEPT !.pc = "done", !.resp = response], fs |-> f]

Goto(h, f, label) == [h |-> [h EXCEPT !.pc = label], fs |-> f]

do_OPTIONS(h, f) == Done(h, f, send(200, {}, [k |-> "empty"]))

\* SimpleHTTPRequestHandler.do_GET: the file under PROJECT_ROOT, or 404.
static_GET(h, f) ==
    IF h.req.path = KEYMAP_FILE_URL /\ f.keymap.st # "absent"
    THEN Done(h, f, send(200, {<<"Content-Type", "application/octet-stream">>},
                         [k |-> "file", b |-> f.keymap.b]))
    ELSE Done(h, f, send_error(404, "File not found", ""))

\* Mutant: the file is opened without the exists() check.
do_GET_no_exists_check(h, f) ==
    IF h.req.path = KEY_COLORS_URL
    THEN LET colors == json_load(f.colors)
         IN  IF colors.exc # ""
             THEN Done(h, f, send_error(500, "Error loading key colors", colors.exc))
             ELSE Done(h, f, send_json(200, json_dumps(colors.val)))
    ELSE static_GET(h, f)

do_GET(h, f) ==
    IF h.req.path = KEY_COLORS_URL
    THEN CASE h.pc = "start" ->
                IF f.colors.st = "absent"
                THEN Done(h, f, send_json(404, json_dumps(PyDict(<<>>))))
                ELSE Goto(h, f, "read")
           [] h.pc = "read" ->
                LET colors == json_load(f.colors)
                IN  IF colors.exc # ""
                    THEN Done(h, f, send_error(500, "Error loading key colors", colors.exc))
                    ELSE Done(h, f, send_json(200, json_dumps(colors.val)))
    ELSE static_GET(h, f)

\* KEY_COLORS_FILE.parent is the directory of the script itself: its mkdir
\* changes nothing.
post_key_colors(h, f) ==
    CASE h.pc = "start" ->
            LET colors == read_json(h.req)
            IN  IF colors.exc # ""
                THEN Done(h, f, send_error(500, "Error saving key colors", colors.exc))
                ELSE Goto([h EXCEPT !.data = colors.val], f, "open")
      [] h.pc = "open" ->
            Goto(h, [f EXCEPT !.colors = open_w(f.colors)], "write")
      [] h.pc = "write" ->
            Done(h, [f EXCEPT !.colors = JsonText(2, json_dumps(h.data))],
                 send_json(200, Envelope("Key colors saved successfully",
                                         {"success", "message", "path"})))

post_save_keymap(h, f, ls) ==
    CASE h.pc = "start" ->
            LET data == read_json(h.req)
                has == contains(data.val, KEYMAP_CONTENT)
            IN  IF data.exc # ""
                THEN Done(h, f, send_error(500, "Error saving keymap", data.exc))
                ELSE IF has.exc # ""
                THEN Done(h, f, send_error(500, "Error saving keymap", has.exc))
                ELSE IF ~has.val
                THEN Done(h, f, send_error(400, "Missing keymap_content in request", ""))
                ELSE Goto([h EXCEPT !.data = data.val], f, "mkdir")
      [] h.pc = "mkdir" ->
            Goto(h, [f EXCEPT !.keymap_dir = TRUE], "open")
      [] h.pc = "open" ->
            Goto(h, [f EXCEPT !.keymap = open_w(f.keymap)], "write")
      [] h.pc = "write" ->
            LET content == getitem(h.data, KEYMAP_CONTENT)
                written == file_write(content.val, ls)
            IN  IF content.exc # ""
                THEN Done(h, f, send_error(500, "Error saving keymap", content.exc))
                ELSE IF written.exc # ""
                THEN Done(h, f, send_error(500, "Error saving keymap", written.exc))
                ELSE Done(h, [f EXCEPT !.keymap = Bytes(written.b)],
                          send_json(200, Envelope("Keymap saved successfully",
                                                  {"success", "message", "path"})))

do_POST(h, f, ls) ==
    IF h.req.path = KEY_COLORS_URL THEN post_key_colors(h, f)
    ELSE IF h.req.path = SAVE_KEYMAP_URL THEN post_save_keymap(h, f, ls)
    ELSE Done(h, f, send_error(404, "Endpoint not found", ""))

\* Mutant: unlink() without the exists() check.
do_DELETE_unchecked(h, f) ==
    IF h.req.path = KEY_COLORS_URL
    THEN IF f.colors.st = "absent"
         THEN Done(h, f, send_error(500, "Error deleting key colors",
                                    "FileNotFoundError"))
         ELSE Done(h, [f EXCEPT !.colors = Absent],
                   send_json(200, Envelope("Key colors reset successfully",
                                           {"success", "message"})))
    ELSE Done(h, f, send_error(404, "Endpoint not found", ""))

do_DELETE(h, f) ==
    IF h.req.path = KEY_COLORS_URL
    THEN CASE h.pc = "start" ->
                IF f.colors.st # "absent"
                THEN Goto(h, f, "unlink")
                ELSE Done(h, f, send_json(200, Envelope("Key colors reset successfully",
                                                       {"success", "message"})))
           [] h.pc = "unlink" ->
                IF f.colors.st = "absent"
                THEN Done(h, f, send_error(500, "Error deleting key colors",
                                           "FileNotFoundError"))
                ELSE Done(h, [f EXCEPT !.colors = Absent],
                          send_json(200, Envelope("Key colors reset successfully",
                                                  {"success", "message"})))
    ELSE Done(h, f, send_error(404, "Endpoint not found", ""))

\* One step of the handler of h.req.
step(h, f, ls) ==
    CASE h.req.method = "GET" -> do_GET(h, f)
      [] h.req.method = "POST" -> do_POST(h, f, ls)
      [] h.req.method = "DELETE" -> do_DELETE(h, f)
      [] h.req.method = "OPTIONS" -> do_OPTIONS(h, f)

\* The handler run from its first statement to its response.
RECURSIVE run(_, _, _)
run(h, f, ls) ==
    IF h.pc = "done" THEN [h |-> h, fs |-> f]
    ELSE LET r == step(h, f, ls) IN run(r.h, r.fs, ls)

handle(request, f, ls) == run(Handler(request), f, ls)

(***************************************************************************)
(* The inputs: request bodies and the states the files can start in.       *)
(***************************************************************************)
KeyA == <<97>>
KeyB == <<98>>

\* Bodies sent to /api/key-colors: flat mappings, and the other shapes of
\* JSON text (a repeated name, a number beyond the doubles, scalars, an
\* array, Python's Infinity).
ColorDocs ==
    {Obj(<<>>),
     Obj(<< <<KeyA, Str(<<233>>)>> >>),
     Obj(<< <<KeyA, Str(<<233>>)>>, <<KeyB, Str(<<>>)>> >>),
     Obj(<< <<KeyA, Str(<<233>>)>>, <<KeyA, Str(<<>>)>> >>),
     Obj(<< <<KeyA, Num(1, 400)>> >>),
     Obj(<< <<KeyA, Num(1, 2)>> >>),
     Arr(<<Num(1, 0), Null>>),
     Num(1, 0), Num(1, 400), Null, Str(<<55296>>), Infinity}

\* Bodies sent to /api/save-keymap.
KeymapDocs ==
    {Obj(<< <<KEYMAP_CONTENT, Str(s)>> >>) : s \in Strings(MaxStrLen)}
    \cup {Obj(<< <<KEYMAP_CONTENT, Num(1, 0)>> >>),
          Obj(<< <<KEYMAP_CONTENT, Null>> >>),
          Obj(<<>>),
          Obj(<< <<KeyA, Str(<<233>>)>> >>),
          Arr(<<>>),
          Arr(<<Str(KEYMAP_CONTENT)>>),
          Str(<<233>>),
          Str(<<120>> \o KEYMAP_CONTENT),
          Num(1, 0),
          Null}

PostRequests ==
    {Request("POST", p, cl, NoBody) :
        p \in {KEY_COLORS_URL, SAVE_KEYMAP_URL}, cl \in {"absent", "nonnumeric"}}
    \cup {Request("POST", KEY_COLORS_URL, "exact", b) :
            b \in {Malformed} \cup {JsonBody(d) : d \in ColorDocs}}
    \cup {Request("POST", SAVE_KEYMAP_URL, "exact", b) :
            b \in {Malformed} \cup {JsonBody(d) : d \in KeymapDocs}}
    \cup {Request("POST", p, "exact", JsonBody(Obj(<<>>))) :
            p \in {KEYMAP_FILE_URL, MISSING_URL}}

BodylessRequests(method) == {Request(method, p, "absent", NoBody) : p \in Paths}

LineSeps == {<<10>>, <<13, 10>>}       \* POSIX, Windows

InitFiles ==
    {[colors |-> c, keymap |-> k, keymap_dir |-> d] :
        c \in {Absent, JsonText(2, Obj(<< <<KeyA, Str(<<233>>)>> >>))},
        k \in {Absent, Bytes(<<>>), Bytes(<<107, 10>>)},
        d \in BOOLEAN}

\* Handler slots: the accept loop uses one; a second exists so that a
\* server accepting while a handler runs can be written down.
Slots == {1, 2}
NoFiles == [colors |-> Absent, keymap |-> Absent, keymap_dir |-> FALSE]
Idle == [h |-> [Handler(NoRequest) EXCEPT !.pc = "idle"], pre |-> NoFiles]
Busy(a) == {slot \in Slots : a[slot].h.pc # "idle"}

NotKnown == [known |-> FALSE]
Known(d) == [known |-> TRUE, doc |-> d]

\* The history variable saved after `request` was answered with `response`.
saved_after(old, request, response) ==
    IF request.path = KEY_COLORS_URL /\ request.method = "POST"
    THEN IF response.status = 200 THEN Known(request.body.doc) ELSE NotKnown
    ELSE IF request.path = KEY_COLORS_URL /\ request.method = "DELETE"
    THEN NotKnown
    ELSE old

(***************************************************************************)
(* Spec: the handler, one whole request at a time.                         *)
(***************************************************************************)
PORT == 8000

InitHttp ==
    /\ fs \in {f \in InitFiles : f.keymap.st # "absent" => f.keymap_dir}
    /\ linesep \in LineSeps
    /\ req = NoRequest
    /\ resp = NoResponse
    /\ changed = FALSE
    /\ saved = NotKnown

InitServe ==
    /\ backlog = <<>>
    /\ active = [slot \in Slots |-> Idle]

max_attempts == 10

\* range(start_port, start_port + max_attempts)
probe_range(start_port, attempts) == start_port..(start_port + attempts - 1)

Ports == probe_range(PORT, max_attempts)

InitBoot ==
    /\ occupied \in SUBSET Ports
    /\ main_pc = "find_free_port"
    /\ port = PORT
    /\ probe = {}
    /\ found = {}
    /\ httpd = {}
    /\ banner = {}
    /\ exit_status = {}
    /\ probe_log = <<>>

\* main() has bound the listener and is in serve_forever.
Serving ==
    /\ occupied = {}
    /\ main_pc = "serve_forever"
    /\ port = PORT
    /\ probe = {}
    /\ found = {PORT}
    /\ httpd = {PORT}
    /\ banner = {PORT}
    /\ exit_status = {}
    /\ probe_log = <<<<PORT, TRUE>>>>

Init == InitHttp /\ InitServe /\ Serving

DoGET ==
    \E request \in BodylessRequests("GET") :
        \E r \in {handle(request, fs, linesep)} :
            /\ fs' = r.fs
            /\ req' = request
            /\ resp' = r.h.resp
            /\ changed' = (r.fs # fs)
            /\ saved' = saved_after(saved, request, r.h.resp)
            /\ UNCHANGED <<linesep, serve_vars, boot_vars>>

DoPOST ==
    \E request \in PostRequests :
        \E r \in {handle(request, fs, linesep)} :
            /\ fs' = r.fs
            /\ req' = request
            /\ resp' = r.h.resp
            /\ changed' = (r.fs # fs)
            /\ saved' = saved_after(saved, request, r.h.resp)
            /\ UNCHANGED <<linesep, serve_vars, boot_vars>>

DoDELETE ==
    \E request \in BodylessRequests("DELETE") :
        \E r \in {handle(request, fs, linesep)} :
            /\ fs' = r.fs
            /\ req' = request
            /\ resp' = r.h.resp
            /\ changed' = (r.fs # fs)
            /\ saved' = saved_after(saved, request, r.h.resp)
            /\ UNCHANGED <<linesep, serve_vars, boot_vars>>

DoOPTIONS ==
    \E request \in BodylessRequests("OPTIONS") :
        \E r \in {handle(request, fs, linesep)} :
            /\ fs' = r.fs
            /\ req' = request
            /\ resp' = r.h.resp
            /\ changed' = (r.fs # fs)
            /\ saved' = saved_after(saved, request, r.h.resp)
            /\ UNCHANGED <<linesep, serve_vars, boot_vars>>

Next == DoGET \/ DoPOST \/ DoDELETE \/ DoOPTIONS

Spec == Init /\ [][Next]_vars

(***************************************************************************)
(* SpecServe: clients connect at any time; serve_forever accepts one       *)
(* connection, runs its handler to the response, and only then accepts     *)
(* the next (socketserver.TCPServer, no threading mix-in).                 *)
(***************************************************************************)
ServeRequests ==
    {Request("GET", KEY_COLORS_URL, "absent", NoBody),
     Request("DELETE", KEY_COLORS_URL, "absent", NoBody),
     Request("POST", KEY_COLORS_URL, "exact", JsonBody(Obj(<<>>))),
     Request("POST", KEY_COLORS_URL, "exact",
             JsonBody(Obj(<< <<KeyA, Str(<<233>>)>> >>))),
     Request("POST", SAVE_KEYMAP_URL, "exact",
             JsonBody(Obj(<< <<KEYMAP_CONTENT, Str(<<233>>)>> >>))),
     Request("POST", SAVE_KEYMAP_URL, "exact",
             JsonBody(Obj(<< <<KEYMAP_CONTENT, Null>> >>)))}

\* Mutant: ThreadingMixIn, a connection is accepted while a handler runs.
can_accept_threading(a) == Busy(a) # Slots

\* BaseServer.serve_forever -> process_request -> finish_request: the next
\* connection is accepted only when no handler is running.
can_accept(a) == Busy(a) = {}

ClientSend ==
    \E request \in ServeRequests :
        /\ Len(backlog) < MaxBacklog
        /\ backlog' = Append(backlog, request)
        /\ UNCHANGED <<active, http_vars, boot_vars>>

Accept ==
    /\ backlog # <<>>
    /\ can_accept(active)
    /\ Busy(active) # Slots
    /\ LET slot == CHOOSE s \in Slots \ Busy(active) :
                        \A o \in Slots \ Busy(active) : s <= o
       IN  active' = [active EXCEPT
                        ![slot] = [h |-> Handler(Head(backlog)), pre |-> fs]]
    /\ backlog' = Tail(backlog)
    /\ UNCHANGED <<http_vars, boot_vars>>

HandlerStep ==
    \E slot \in Busy(active) :
        \E r \in {step(active[slot].h, fs, linesep)} :
            /\ fs' = r.fs
            /\ IF r.h.pc = "done"
               THEN /\ active' = [active EXCEPT ![slot] = Idle]
                    /\ req' = r.h.req
                    /\ resp' = r.h.resp
                    /\ changed' = (r.fs # active[slot].pre)
                    /\ saved' = saved_after(saved, r.h.req, r.h.resp)
               ELSE /\ active' = [active EXCEPT ![slot].h = r.h]
                    /\ UNCHANGED <<req, resp, changed, saved>>
            /\ UNCHANGED <<linesep, backlog, boot_vars>>

NextServe == ClientSend \/ Accept \/ HandlerStep

SpecServe == Init /\ [][NextServe]_vars

(***************************************************************************)
(* SpecBoot: main() and find_free_port(PORT), while other processes bind   *)
(* and release the probed ports at any time.                               *)
(***************************************************************************)
\* socketserver.TCPServer((host, p), ...): bind() succeeds when no other
\* socket holds the port, and raises OSError otherwise.
bind_succeeds(p, held) == p \notin held

\* Mutant: the listener is never closed.
server_close_leak(listener) == listener

\* TCPServer.__exit__ -> server_close(): the listener's port is released.
server_close(listener) == {}

\* One pass of the loop body: the constructor's bind.
ProbeBind ==
    /\ main_pc = "find_free_port"
    /\ port \in probe_range(PORT, max_attempts)
    /\ probe_log' = Append(probe_log, <<port, port \notin occupied>>)
    /\ IF bind_succeeds(port, occupied \cup probe \cup httpd)
       THEN /\ probe' = {port}
            /\ main_pc' = "probing"
            /\ port' = port
       ELSE /\ probe' = probe
            /\ main_pc' = "find_free_port"
            /\ port' = port + 1
    /\ UNCHANGED <<occupied, found, httpd, banner, exit_status, http_vars, serve_vars>>

\* `return port` inside the with block: the throwaway listener is closed.
ProbeClose ==
    /\ main_pc = "probing"
    /\ probe' = server_close(probe)
    /\ found' = {port}
    /\ main_pc' = "returned"
    /\ UNCHANGED <<occupied, port, httpd, banner, exit_status, probe_log,
                   http_vars, serve_vars>>

\* The loop ran out: return None.
ProbeExhausted ==
    /\ main_pc = "find_free_port"
    /\ port \notin probe_range(PORT, max_attempts)
    /\ found' = {}
    /\ main_pc' = "returned"
    /\ UNCHANGED <<occupied, port, probe, httpd, banner, exit_status, probe_log,
                   http_vars, serve_vars>>

\* if port is None: sys.exit(1)
MainCheck ==
    /\ main_pc = "returned"
    /\ IF found = {}
       THEN main_pc' = "exited" /\ exit_status' = {1}
       ELSE main_pc' = "bind" /\ exit_status' = exit_status
    /\ UNCHANGED <<occupied, port, probe, found, httpd, banner, probe_log,
                   http_vars, serve_vars>>

\* with socketserver.TCPServer(("", port), Handler) as httpd: an OSError
\* of the constructor is caught nowhere and ends the process.
MainBind ==
    /\ main_pc = "bind"
    /\ IF \A p \in found : bind_succeeds(p, occupied \cup probe)
       THEN httpd' = found /\ main_pc' = "banner" /\ exit_status' = exit_status
       ELSE httpd' = httpd /\ main_pc' = "crashed" /\ exit_status' = {1}
    /\ UNCHANGED <<occupied, port, probe, found, banner, probe_log,
                   http_vars, serve_vars>>

\* url = f"http://localhost:{port}/keyboard-visualizer/"; the banner.
MainBanner ==
    /\ main_pc = "banner"
    /\ banner' = found
    /\ main_pc' = "serve_forever"
    /\ UNCHANGED <<occupied, port, probe, found, httpd, exit_status, probe_log,
                   http_vars, serve_vars>>

\* KeyboardInterrupt in serve_forever: the with block closes the listener.
Interrupt ==
    /\ main_pc = "serve_forever"
    /\ httpd' = server_close(httpd)
    /\ main_pc' = "exited"
    /\ exit_status' = {0}
    /\ UNCHANGED <<occupied, port, probe, found, banner, probe_log,
                   http_vars, serve_vars>>

\* Another process binds a port nobody holds, or releases one it holds.
EnvBind ==
    \E p \in Ports \ (occupied \cup probe \cup httpd) :
        /\ occupied' = occupied \cup {p}
        /\ UNCHANGED <<main_pc, port, probe, found, httpd, banner, exit_status,
                       probe_log, http_vars, serve_vars>>

EnvRelease ==
    \E p \in occupied :
        /\ occupied' = occupied \ {p}
        /\ UNCHANGED <<main_pc, port, probe, found, httpd, banner, exit_status,
                       probe_log, http_vars, serve_vars>>

NextBoot ==
    \/ ProbeBind \/ ProbeClose \/ ProbeExhausted
    \/ MainCheck \/ MainBind \/ MainBanner \/ Interrupt
    \/ EnvBind \/ EnvRelease

InitBootSpec ==
    /\ InitHttp /\ fs = NoFiles /\ linesep = <<10>>
    /\ InitServe
    /\ InitBoot

SpecBoot == InitBootSpec /\ [][NextBoot]_vars

(***************************************************************************)
(* Claims about the handler, checked under Spec.                           *)
(***************************************************************************)
\* RFC 8259 well-formedness of a token tree.
WellFormed(d) ==
    CASE d.k = "Infinity" -> FALSE
      [] d.k = "arr" -> \A i \in DOMAIN d.items : d.items[i].k # "Infinity"
      [] d.k = "obj" -> \A i \in DOMAIN d.members : d.members[i][2].k # "Infinity"
      [] OTHER -> TRUE

\* The value a well-formed JSON text denotes: an object is the mapping of
\* its names, a repeated name keeping its last value.
LastMembers(members) ==
    {members[i] : i \in {j \in DOMAIN members :
                            \A l \in DOMAIN members :
                                l > j => members[l][1] # members[j][1]}}

JsonValue(d) ==
    CASE d.k = "obj" -> [k |-> "obj", map |-> LastMembers(d.members)]
      [] OTHER -> d

JsonEqual(a, b) ==
    WellFormed(a) /\ WellFormed(b) /\ JsonValue(a) = JsonValue(b)

\* The bytes of a file read back as UTF-8 text, byte for byte (no newline
\* translation): what the file holds.
RECURSIVE utf8_decode(_)
utf8_decode(b) ==
    IF b = <<>> THEN <<>>
    ELSE IF b[1] < 128 THEN <<b[1]>> \o utf8_decode(Tail(b))
    ELSE IF b[1] < 224
         THEN <<(b[1] - 192) * 64 + (b[2] - 128)>> \o utf8_decode(SubSeq(b, 3, Len(b)))
    ELSE <<(b[1] - 224) * 4096 + (b[2] - 128) * 64 + (b[3] - 128)>>
            \o utf8_decode(SubSeq(b, 4, Len(b)))

IsRequest(method, path) == req.method = method /\ req.path = path

\* A POST that reached the JSON parser with a body it accepts.
IsJsonPost(path) ==
    /\ IsRequest("POST", path)
    /\ req.content_length = "exact"
    /\ req.body.k = "json"

\* C1 (as claimed): a GET /api/key-colors that follows a POST of the
\* well-formed JSON value v answered 200, with no POST or DELETE on
\* /api/key-colors in between, answers 200 with a JSON body equal to v.
C1_RoundTrip ==
    (IsRequest("GET", KEY_COLORS_URL) /\ saved.known /\ WellFormed(saved.doc))
        => /\ resp.status = 200
           /\ resp.body.k = "json"
           /\ JsonEqual(resp.body.doc, saved.doc)

HasHugeNumber(d) ==
    \/ d.k = "num" /\ float_overflows(d.m, d.e)
    \/ d.k = "arr" /\ \E i \in DOMAIN d.items :
            d.items[i].k = "num" /\ float_overflows(d.items[i].m, d.items[i].e)
    \/ d.k = "obj" /\ \E i \in DOMAIN d.members :
            d.members[i][2].k = "num"
                /\ float_overflows(d.members[i][2].m, d.members[i][2].e)

\* What holds of C1: the round trip, for well-formed values none of whose
\* numbers is beyond the doubles.
C1_RoundTripInRange ==
    (IsRequest("GET", KEY_COLORS_URL) /\ saved.known /\ WellFormed(saved.doc)
        /\ ~HasHugeNumber(saved.doc))
        => /\ resp.status = 200
           /\ resp.body.k = "json"
           /\ JsonEqual(resp.body.doc, saved.doc)

\* The JSON body is an object with a member named keymap_content.
HasKeymapContentField(d) ==
    d.k = "obj" /\ \E i \in DOMAIN d.members : d.members[i][1] = KEYMAP_CONTENT

\* C2 (as claimed): POST /api/save-keymap whose JSON body has no
\* keymap_content field answers 400 and changes nothing on disk.
C2_MissingFieldIs400 ==
    (IsJsonPost(SAVE_KEYMAP_URL) /\ ~HasKeymapContentField(req.body.doc))
        => resp.status = 400 /\ ~changed

\* What holds of C2: a body that is an object, array or string in which
\* `in` does not find keymap_content answers 400 and changes nothing.
C2_NotFoundIs400 ==
    (IsJsonPost(SAVE_KEYMAP_URL)
        /\ req.body.doc.k \in {"obj", "arr", "str"}
        /\ ~contains(json_loads(req.body.doc), KEYMAP_CONTENT).val)
        => resp.status = 400 /\ ~changed

\* The string s of a body {"keymap_content": s}.
KeymapContentOf(d) ==
    d.members[CHOOSE i \in DOMAIN d.members : d.members[i][1] = KEYMAP_CONTENT][2]

HasStringContent(d) == HasKeymapContentField(d) /\ KeymapContentOf(d).k = "str"

\* C3 (as claimed): POST /api/save-keymap with keymap_content a string s
\* answers 200 with the {success, message, path} envelope and leaves the
\* keymap file holding exactly s, whatever it held before.
C3_KeymapVerbatim ==
    (IsJsonPost(SAVE_KEYMAP_URL) /\ HasStringContent(req.body.doc))
        => /\ resp.status = 200
           /\ resp.body = JsonBody(Envelope("Keymap saved successfully",
                                            {"success", "message", "path"}))
           /\ fs.keymap.st = "bytes"
           /\ utf8_decode(fs.keymap.b) = KeymapContentOf(req.body.doc).s

\* What holds of C3: the same, for strings UTF-8 can encode, where
\* os.linesep is "\n".
C3_EncodableVerbatim ==
    (IsJsonPost(SAVE_KEYMAP_URL) /\ HasStringContent(req.body.doc)
        /\ utf8_encodable(KeymapContentOf(req.body.doc).s) /\ linesep = <<10>>)
        => /\ resp.status = 200
           /\ fs.keymap.st = "bytes"
           /\ utf8_decode(fs.keymap.b) = KeymapContentOf(req.body.doc).s

\* C4: DELETE /api/key-colors answers 200 with the success envelope and
\* leaves the color file absent, whether or not the file existed; so a
\* repeated DELETE gives the same response and the same file state.
C4_DeleteIdempotent ==
    IsRequest("DELETE", KEY_COLORS_URL)
        => /\ resp.status = 200
           /\ resp.body = JsonBody(Envelope("Key colors reset successfully",
                                            {"success", "message"}))
           /\ fs.colors = Absent

\* A DELETE that found no color file (a repeated one, or one on a fresh
\* directory) has answered.
C4_Witness ==
    /\ IsRequest("DELETE", KEY_COLORS_URL)
    /\ ~changed
    /\ resp.status = 200

\* C5: a GET /api/key-colors never changes the file system (so it does not
\* create the file), and when the color file is absent it answers 404 with
\* the body {}.
C5_AbsentIs404 ==
    IsRequest("GET", KEY_COLORS_URL)
        => /\ ~changed
           /\ fs.colors = Absent
                => resp.status = 404 /\ resp.body = JsonBody(Obj(<<>>))
           /\ resp.status = 404 => fs.colors = Absent

\* A GET has answered 404 while the color file is absent.
C5_Witness ==
    /\ IsRequest("GET", KEY_COLORS_URL)
    /\ fs.colors = Absent
    /\ resp.status = 404

\* C6: every response carries the three CORS headers, and OPTIONS on any
\* path answers 200 with an empty body and changes no file.
C6_CorsEverywhere ==
    /\ resp # NoResponse => CORS \subseteq resp.headers
    /\ req.method = "OPTIONS"
        => resp.status = 200 /\ resp.body.k = "empty" /\ ~changed

\* An error response (here the 500 of a failed save) carries the headers.
C6_Witness ==
    /\ req.method = "POST"
    /\ resp.status = 500
    /\ <<"Access-Control-Allow-Origin", "*">> \in resp.headers

\* C10 (as claimed): a POST on either endpoint that answers 400 or 500
\* leaves the files as they were.
C10_FailedWriteChangesNothing ==
    (req.method = "POST" /\ req.path \in {KEY_COLORS_URL, SAVE_KEYMAP_URL}
        /\ resp.status \in {400, 500})
        => ~changed

\* What holds of C10: a POST that answers 400, or 500 for a non-numeric
\* Content-Length or malformed JSON, failed before its open(..., 'w') and
\* changes nothing.
C10_EarlyFailureChangesNothing ==
    (req.method = "POST" /\ resp.status \in {400, 500}
        /\ (resp.status = 500 => resp.body.exc \in {"ValueError", "JSONDecodeError"}))
        => ~changed

(***************************************************************************)
(* Claims about the accept loop, checked under SpecServe.                  *)
(***************************************************************************)
IsColorsGet(h) == h.req.method = "GET" /\ h.req.path = KEY_COLORS_URL

\* C9: requests are handled one at a time.  In every step: at most one
\* handler is running; a handler that finishes leaves the response and
\* the files that running it alone, on the files it found when accepted,
\* gives (so responses and final contents are those of the requests run
\* serially in accept order, the last write winning); and a GET that reads
\* the color file never finds it truncated by an unfinished POST.
C9_SerialHandling ==
    [][/\ Cardinality(Busy(active')) <= 1
       /\ \A slot \in Busy(active) :
            /\ slot \notin Busy(active')
                => \E whole \in {handle(active[slot].h.req, active[slot].pre, linesep)} :
                        resp' = whole.h.resp /\ fs' = whole.fs
            /\ (IsColorsGet(active[slot].h) /\ active[slot].h.pc = "read"
                    /\ active'[slot] # active[slot])
                => fs.colors.st = "json_text"]_vars

\* A POST has truncated the color file and not yet written it, while a
\* GET for it waits in the listen queue.
C9_Witness ==
    /\ \E slot \in Busy(active) :
            /\ active[slot].h.req.method = "POST"
            /\ active[slot].h.pc = "write"
            /\ fs.colors = Bytes(<<>>)
    /\ \E i \in DOMAIN backlog :
            backlog[i].method = "GET" /\ backlog[i].path = KEY_COLORS_URL

(***************************************************************************)
(* Claims about startup, checked under SpecBoot.                           *)
(***************************************************************************)
Returned == main_pc \notin {"find_free_port", "probing"}

AllOccupied(log) == \A i \in DOMAIN log : ~log[i][2]

\* C7: find_free_port probes PORT, PORT+1, ... in increasing order; it
\* returns the first port that was free when probed (every port before it
\* was occupied when probed) with its throwaway listener released, and
\* None exactly when all max_attempts ports were occupied when probed;
\* main then exits with status 1 and never binds a listener.
C7_FindFreePort ==
    /\ \A i \in DOMAIN probe_log : probe_log[i][1] = PORT + i - 1
    /\ Len(probe_log) <= max_attempts
    /\ probe \subseteq {port}
    /\ Returned =>
        /\ probe = {}
        /\ found # {} =>
            /\ found = {probe_log[Len(probe_log)][1]}
            /\ found \subseteq Ports
            /\ probe_log[Len(probe_log)][2]
            /\ AllOccupied(SubSeq(probe_log, 1, Len(probe_log) - 1))
        /\ found = {} <=> (Len(probe_log) = max_attempts /\ AllOccupied(probe_log))
        /\ found = {} =>
            /\ httpd = {}
            /\ main_pc \in {"returned", "exited"}
            /\ main_pc = "exited" => exit_status = {1}

\* find_free_port has returned a port other than the first, the ports
\* before it having been occupied.
C7_Witness ==
    /\ main_pc = "returned"
    /\ found = {PORT + 2}
    /\ probe = {}

\* All ports were occupied and main has exited with status 1.
C7_WitnessNone ==
    main_pc = "exited" /\ found = {} /\ exit_status = {1}

\* The default port was occupied when probed.
DefaultPortOccupied == probe_log # <<>> /\ ~probe_log[1][2]

\* C8 (as claimed): when the default port is occupied and find_free_port
\* has found a later port free, the server ends up listening on exactly
\* that port, within the budget, and the banner names it; the step from
\* the probe's release to main's bind never leaves the server unbound.
C8_ListensOnReportedPort ==
    (DefaultPortOccupied /\ found # {}
        /\ main_pc \in {"banner", "serve_forever", "crashed"})
        => /\ httpd # {}
           /\ httpd = found
           /\ httpd \subseteq Ports
           /\ banner # {} => banner = httpd

\* What holds of the port reported: when the banner is printed the server
\* is listening on the port it names.
C8_BannerNamesListener ==
    main_pc = "serve_forever" => (banner = httpd /\ httpd = found /\ httpd # {})

====
